---------------------------- MODULE Spec2Model ----------------------------
(***************************************************************************)
(* Model of opentrons_control/frontend/app.js: the click handler of the    *)
(* upload button.  Each click starts one invocation of the async handler;  *)
(* an invocation runs synchronously up to `await fetch(...)`, is resumed   *)
(* when the fetch promise settles, calls response.json(), and is resumed   *)
(* a second time when that promise settles.  Invocations of different      *)
(* clicks interleave at the two await points.                              *)
(*                                                                         *)
(* Text (response bodies, output.textContent) is a sequence of one-        *)
(* character strings, so that JSON decoding and pretty-printing are        *)
(* computed character by character.                                        *)
(***************************************************************************)
EXTENDS Integers, Sequences, FiniteSets, TLC

(***************************************************************************)
(* Bounds and input sets.                                                  *)
(***************************************************************************)
MaxClicks == 2

NoFile == "undefined"
Files == {"a.csv", "b.csv"}

Statuses == {200, 500}

BodyStatusOk ==
  <<"{", "\"", "s", "t", "a", "t", "u", "s", "\"", ":", "\"", "o", "k", "\"", "}">>
BodyErrorList ==
  <<"{", "\"", "e", "r", "r", "o", "r", "\"", ":", " ", "[", "1", ",", " ",
    "n", "u", "l", "l", "]", "}">>
BodyHtml == <<"<", "h", "t", "m", "l", ">">>
BodyTruncated == <<"{", "\"", "s", "t", "a", "t", "u", "s", "\"", ":">>

Bodies == {BodyStatusOk, BodyErrorList, BodyHtml, BodyTruncated}

(***************************************************************************)
(* JSON values.  Every value is a record of the same shape:                *)
(*   t    : "null" | "true" | "false" | "num" | "str" | "arr" | "obj"      *)
(*   n    : the number (t = "num")                                         *)
(*   s    : the characters (t = "str")                                     *)
(*   kids : the elements (t = "arr", k unused) or the members in insertion *)
(*          order (t = "obj")                                              *)
(* The fragment covered: null, true, false, non-negative integers, strings *)
(* without escapes, arrays, objects with non-numeric keys.                 *)
(***************************************************************************)
JLit(t) == [t |-> t, n |-> 0, s |-> <<>>, kids |-> <<>>]
JNum(n) == [t |-> "num", n |-> n, s |-> <<>>, kids |-> <<>>]
JStr(s) == [t |-> "str", n |-> 0, s |-> s, kids |-> <<>>]
JArr(kids) == [t |-> "arr", n |-> 0, s |-> <<>>, kids |-> kids]
JObj(kids) == [t |-> "obj", n |-> 0, s |-> <<>>, kids |-> kids]

Whitespace == {" ", "\n", "\t", "\r"}
Digits == <<"0", "1", "2", "3", "4", "5", "6", "7", "8", "9">>
IsDigit(c) == \E d \in 1..10 : Digits[d] = c
DigitVal(c) == (CHOOSE d \in 1..10 : Digits[d] = c) - 1

ParseFail == [ok |-> FALSE, v |-> JLit("null"), next |-> 0]
ParseOk(v, next) == [ok |-> TRUE, v |-> v, next |-> next]

RECURSIVE SkipWs(_, _)
SkipWs(s, i) ==
  IF i <= Len(s) /\ s[i] \in Whitespace THEN SkipWs(s, i + 1) ELSE i

HasPrefix(s, i, w) ==
  /\ i + Len(w) - 1 <= Len(s)
  /\ \A k \in 1..Len(w) : s[i + k - 1] = w[k]

RECURSIVE ParseString(_, _, _)
ParseString(s, i, acc) ==
  IF i > Len(s) THEN ParseFail
  ELSE IF s[i] = "\"" THEN ParseOk(JStr(acc), i + 1)
  ELSE IF s[i] \in {"\\", "\n", "\t", "\r"} THEN ParseFail
  ELSE ParseString(s, i + 1, Append(acc, s[i]))

RECURSIVE ParseDigits(_, _, _)
ParseDigits(s, i, acc) ==
  IF i <= Len(s) /\ IsDigit(s[i])
  THEN ParseDigits(s, i + 1, 10 * acc + DigitVal(s[i]))
  ELSE ParseOk(JNum(acc), i)

ParseNumber(s, i) ==
  IF s[i] = "0" THEN ParseOk(JNum(0), i + 1) ELSE ParseDigits(s, i, 0)

\* Assigning a member: a repeated key keeps its place and takes the new value.
SetMember(kids, k, v) ==
  IF \E x \in 1..Len(kids) : kids[x].k = k
  THEN [x \in 1..Len(kids) |->
          IF kids[x].k = k THEN [k |-> k, v |-> v] ELSE kids[x]]
  ELSE Append(kids, [k |-> k, v |-> v])

RECURSIVE ParseValue(_, _)
RECURSIVE ParseElems(_, _, _)
RECURSIVE ParseMembers(_, _, _)

ParseElems(s, i, acc) ==
  LET r == ParseValue(s, i) IN
  IF ~r.ok THEN ParseFail
  ELSE LET k == SkipWs(s, r.next)
           acc2 == Append(acc, [k |-> <<>>, v |-> r.v]) IN
       IF k > Len(s) THEN ParseFail
       ELSE IF s[k] = "," THEN ParseElems(s, k + 1, acc2)
       ELSE IF s[k] = "]" THEN ParseOk(JArr(acc2), k + 1)
       ELSE ParseFail

ParseMembers(s, i, acc) ==
  LET j == SkipWs(s, i) IN
  IF j > Len(s) \/ s[j] # "\"" THEN ParseFail
  ELSE LET key == ParseString(s, j + 1, <<>>) IN
       IF ~key.ok THEN ParseFail
       ELSE LET c == SkipWs(s, key.next) IN
            IF c > Len(s) \/ s[c] # ":" THEN ParseFail
            ELSE LET r == ParseValue(s, c + 1) IN
                 IF ~r.ok THEN ParseFail
                 ELSE LET k == SkipWs(s, r.next)
                          acc2 == SetMember(acc, key.v.s, r.v) IN
                      IF k > Len(s) THEN ParseFail
                      ELSE IF s[k] = "," THEN ParseMembers(s, k + 1, acc2)
                      ELSE IF s[k] = "}" THEN ParseOk(JObj(acc2), k + 1)
                      ELSE ParseFail

ParseValue(s, i) ==
  LET j == SkipWs(s, i) IN
  IF j > Len(s) THEN ParseFail
  ELSE IF s[j] = "{" THEN
         LET m == SkipWs(s, j + 1) IN
         IF m <= Len(s) /\ s[m] = "}" THEN ParseOk(JObj(<<>>), m + 1)
         ELSE ParseMembers(s, j + 1, <<>>)
  ELSE IF s[j] = "[" THEN
         LET m == SkipWs(s, j + 1) IN
         IF m <= Len(s) /\ s[m] = "]" THEN ParseOk(JArr(<<>>), m + 1)
         ELSE ParseElems(s, j + 1, <<>>)
  ELSE IF s[j] = "\"" THEN ParseString(s, j + 1, <<>>)
  ELSE IF IsDigit(s[j]) THEN ParseNumber(s, j)
  ELSE IF HasPrefix(s, j, <<"t", "r", "u", "e">>)
         THEN ParseOk(JLit("true"), j + 4)
  ELSE IF HasPrefix(s, j, <<"f", "a", "l", "s", "e">>)
         THEN ParseOk(JLit("false"), j + 5)
  ELSE IF HasPrefix(s, j, <<"n", "u", "l", "l">>)
         THEN ParseOk(JLit("null"), j + 4)
  ELSE ParseFail

\* response.json(): the body read to its end and decoded; ok = FALSE is the
\* SyntaxError rejection.
JSONparse(s) ==
  LET r == ParseValue(s, 1) IN
  IF r.ok /\ SkipWs(s, r.next) > Len(s)
  THEN [ok |-> TRUE, v |-> r.v]
  ELSE [ok |-> FALSE, v |-> JLit("null")]

RECURSIVE Spaces(_)
Spaces(n) == IF n <= 0 THEN <<>> ELSE <<" ">> \o Spaces(n - 1)

RECURSIVE NumToChars(_)
NumToChars(n) ==
  IF n < 10 THEN <<Digits[n + 1]>>
  ELSE NumToChars(n \div 10) \o <<Digits[(n % 10) + 1]>>

Quote(s) == <<"\"">> \o s \o <<"\"">>

RECURSIVE Serialize(_, _, _)
RECURSIVE SerializeKids(_, _, _, _, _)

\* The members or elements from index x on, each on its own line at depth
\* `cur` when gap > 0, separated by commas.
SerializeKids(isObj, kids, x, gap, cur) ==
  IF x > Len(kids) THEN <<>>
  ELSE LET lead == IF gap > 0 THEN <<"\n">> \o Spaces(cur) ELSE <<>>
           key == IF isObj
                  THEN Quote(kids[x].k) \o <<":">>
                         \o (IF gap > 0 THEN <<" ">> ELSE <<>>)
                  ELSE <<>>
           sep == IF x < Len(kids) THEN <<",">> ELSE <<>> IN
       lead \o key \o Serialize(kids[x].v, gap, cur) \o sep
         \o SerializeKids(isObj, kids, x + 1, gap, cur)

Serialize(v, gap, cur) ==
  IF v.t = "null" THEN <<"n", "u", "l", "l">>
  ELSE IF v.t = "true" THEN <<"t", "r", "u", "e">>
  ELSE IF v.t = "false" THEN <<"f", "a", "l", "s", "e">>
  ELSE IF v.t = "num" THEN NumToChars(v.n)
  ELSE IF v.t = "str" THEN Quote(v.s)
  ELSE LET open == IF v.t = "obj" THEN "{" ELSE "["
           close == IF v.t = "obj" THEN "}" ELSE "]"
           tail == IF gap > 0 THEN <<"\n">> \o Spaces(cur) ELSE <<>> IN
       IF Len(v.kids) = 0 THEN <<open, close>>
       ELSE <<open>> \o SerializeKids(v.t = "obj", v.kids, 1, gap, cur + gap)
              \o tail \o <<close>>

\* A plausible slip: the indent argument is dropped.
JSONstringifyCompact(v, gap) == Serialize(v, 0, 0)

\* JSON.stringify(data, null, gap)
JSONstringify(v, gap) == Serialize(v, gap, 0)


(***************************************************************************)
(* State.                                                                  *)
(*   fileInput : fileInput.files[0], NoFile when nothing is selected       *)
(*   output    : output.textContent                                        *)
(*   inv       : the invocations of the click handler, in click order;     *)
(*               each holds its position (pc) and its locals               *)
(*   requests  : the requests handed to fetch, in order of issue           *)
(*   alerts    : the alert() calls, in order                               *)
(*   unhandled : the number of handler promises that rejected (nothing     *)
(*               awaits or catches the promise the handler returns)        *)
(***************************************************************************)
VARIABLES fileInput, output, inv, requests, alerts, unhandled

vars == <<fileInput, output, inv, requests, alerts, unhandled>>

AlertText ==
  <<"S", "e", "l", "e", "c", "t", " ", "a", " ", "f", "i", "l", "e", " ",
    "f", "i", "r", "s", "t">>

NoResponse == [status |-> 0, body |-> <<>>]

Invocation(pc, file) ==
  [pc |-> pc, file |-> file, response |-> NoResponse, error |-> "none"]

Ids == 1..Len(inv)

Init ==
  /\ fileInput = NoFile
  /\ output = <<>>
  /\ inv = <<>>
  /\ requests = <<>>
  /\ alerts = <<>>
  /\ unhandled = 0

\* The user picks another file in the file input, or clears it.
SelectFile(f) ==
  /\ f # fileInput
  /\ fileInput' = f
  /\ UNCHANGED <<output, inv, requests, alerts, unhandled>>

\* A plausible slip: the part is appended under another field name.
FormDataWrongName(file) == <<[name |-> "upload", value |-> file]>>

\* new FormData(); form.append("file", file)
FormData(file) == <<[name |-> "file", value |-> file]>>

\* fetch("/upload", { method: "POST", body: form })
FetchRequest(id, form) ==
  [inv |-> id, url |-> "/upload", method |-> "POST", body |-> form]

\* A plausible slip: the guard on the selection is missing.
ClickNoGuard ==
  /\ Len(inv) < MaxClicks
  /\ LET id == Len(inv) + 1
         file == fileInput IN
     /\ requests' = Append(requests, FetchRequest(id, FormData(file)))
     /\ inv' = Append(inv, Invocation("awaitFetch", file))
     /\ UNCHANGED alerts
  /\ UNCHANGED <<fileInput, output, unhandled>>

\* A plausible slip: the handler clears the output region when it starts.
ClickClearsOutput ==
  /\ Len(inv) < MaxClicks
  /\ LET id == Len(inv) + 1
         file == fileInput IN
     IF file = NoFile
     THEN /\ alerts' = Append(alerts, [inv |-> id, msg |-> AlertText])
          /\ inv' = Append(inv, Invocation("returned", file))
          /\ UNCHANGED requests
     ELSE /\ requests' = Append(requests, FetchRequest(id, FormData(file)))
          /\ inv' = Append(inv, Invocation("awaitFetch", file))
          /\ UNCHANGED alerts
  /\ output' = <<>>
  /\ UNCHANGED <<fileInput, unhandled>>

\* uploadBtn.onclick up to its first await: read the selection; without a
\* file alert and return, otherwise build the form and issue the request.
Click ==
  /\ Len(inv) < MaxClicks
  /\ LET id == Len(inv) + 1
         file == fileInput IN
     IF file = NoFile
     THEN /\ alerts' = Append(alerts, [inv |-> id, msg |-> AlertText])
          /\ inv' = Append(inv, Invocation("returned", file))
          /\ UNCHANGED requests
     ELSE /\ requests' = Append(requests, FetchRequest(id, FormData(file)))
          /\ inv' = Append(inv, Invocation("awaitFetch", file))
          /\ UNCHANGED alerts
  /\ UNCHANGED <<fileInput, output, unhandled>>

\* A plausible slip: the response is kept in a variable shared by the
\* invocations, so every invocation awaiting its fetch sees this response.
FetchResolveShared(i, status, body) ==
  /\ i \in Ids
  /\ inv[i].pc = "awaitFetch"
  /\ inv' = [j \in Ids |->
               IF inv[j].pc = "awaitFetch"
               THEN [inv[j] EXCEPT !.pc = "awaitJson",
                       !.response = [status |-> status, body |-> body]]
               ELSE inv[j]]
  /\ UNCHANGED <<fileInput, output, requests, alerts, unhandled>>

\* The fetch promise of invocation i fulfils with a response; the handler
\* resumes, calls response.json() and suspends on it.
FetchResolve(i, status, body) ==
  /\ i \in Ids
  /\ inv[i].pc = "awaitFetch"
  /\ inv' = [inv EXCEPT ![i].pc = "awaitJson",
               ![i].response = [status |-> status, body |-> body]]
  /\ UNCHANGED <<fileInput, output, requests, alerts, unhandled>>

\* A plausible slip: a catch block that reports the failure to the user.
FetchRejectAlerts(i) ==
  /\ i \in Ids
  /\ inv[i].pc = "awaitFetch"
  /\ inv' = [inv EXCEPT ![i].pc = "returned"]
  /\ alerts' = Append(alerts, [inv |-> i, msg |-> AlertText])
  /\ UNCHANGED <<fileInput, output, requests, unhandled>>

\* A plausible slip: a failed request is sent again.
FetchRejectRetry(i) ==
  /\ i \in Ids
  /\ inv[i].pc = "awaitFetch"
  /\ requests' = Append(requests, FetchRequest(i, FormData(inv[i].file)))
  /\ UNCHANGED <<fileInput, output, inv, alerts, unhandled>>

\* The fetch promise of invocation i rejects (transport failure): the await
\* throws and the handler's promise rejects.
FetchReject(i) ==
  /\ i \in Ids
  /\ inv[i].pc = "awaitFetch"
  /\ inv' = [inv EXCEPT ![i].pc = "rejected", ![i].error = "TypeError"]
  /\ unhandled' = unhandled + 1
  /\ UNCHANGED <<fileInput, output, requests, alerts>>

\* A plausible slip: only the most recent invocation may render.
JsonResolveLatestOnly(i) ==
  /\ i \in Ids
  /\ inv[i].pc = "awaitJson"
  /\ JSONparse(inv[i].response.body).ok
  /\ inv' = [inv EXCEPT ![i].pc = "done"]
  /\ output' = IF i = Len(inv)
               THEN JSONstringify(JSONparse(inv[i].response.body).v, 2)
               ELSE output
  /\ UNCHANGED <<fileInput, requests, alerts, unhandled>>

\* A plausible slip: a response with an error status is thrown away.
JsonResolveChecksStatus(i) ==
  /\ i \in Ids
  /\ inv[i].pc = "awaitJson"
  /\ JSONparse(inv[i].response.body).ok
  /\ IF inv[i].response.status < 400
     THEN /\ inv' = [inv EXCEPT ![i].pc = "done"]
          /\ output' = JSONstringify(JSONparse(inv[i].response.body).v, 2)
          /\ UNCHANGED unhandled
     ELSE /\ inv' = [inv EXCEPT ![i].pc = "rejected", ![i].error = "Error"]
          /\ unhandled' = unhandled + 1
          /\ UNCHANGED output
  /\ UNCHANGED <<fileInput, requests, alerts>>

\* The json() promise of invocation i fulfils with the decoded value; the
\* handler resumes and writes its pretty-printed form to the output region.
JsonResolve(i) ==
  /\ i \in Ids
  /\ inv[i].pc = "awaitJson"
  /\ JSONparse(inv[i].response.body).ok
  /\ inv' = [inv EXCEPT ![i].pc = "done"]
  /\ output' = JSONstringify(JSONparse(inv[i].response.body).v, 2)
  /\ UNCHANGED <<fileInput, requests, alerts, unhandled>>

\* A plausible slip: a catch block that shows the raw body instead.
JsonRejectShowsBody(i) ==
  /\ i \in Ids
  /\ inv[i].pc = "awaitJson"
  /\ ~JSONparse(inv[i].response.body).ok
  /\ inv' = [inv EXCEPT ![i].pc = "done"]
  /\ output' = inv[i].response.body
  /\ UNCHANGED <<fileInput, requests, alerts, unhandled>>

\* The json() promise of invocation i rejects because the body is not JSON:
\* the await throws and the handler's promise rejects.
JsonReject(i) ==
  /\ i \in Ids
  /\ inv[i].pc = "awaitJson"
  /\ ~JSONparse(inv[i].response.body).ok
  /\ inv' = [inv EXCEPT ![i].pc = "rejected", ![i].error = "SyntaxError"]
  /\ unhandled' = unhandled + 1
  /\ UNCHANGED <<fileInput, output, requests, alerts>>

\* The json() promise of invocation i rejects because the connection broke
\* while the body was being read.
JsonNetworkError(i) ==
  /\ i \in Ids
  /\ inv[i].pc = "awaitJson"
  /\ inv' = [inv EXCEPT ![i].pc = "rejected", ![i].error = "TypeError"]
  /\ unhandled' = unhandled + 1
  /\ UNCHANGED <<fileInput, output, requests, alerts>>

Next ==
  \/ \E f \in Files \cup {NoFile} : SelectFile(f)
  \/ Click
  \/ \E i \in 1..MaxClicks, st \in Statuses, b \in Bodies : FetchResolve(i, st, b)
  \/ \E i \in 1..MaxClicks : FetchReject(i)
  \/ \E i \in 1..MaxClicks : JsonResolve(i)
  \/ \E i \in 1..MaxClicks : JsonReject(i)
  \/ \E i \in 1..MaxClicks : JsonNetworkError(i)

Spec == Init /\ [][Next]_vars


(***************************************************************************)
(* Vocabulary of the properties.                                           *)
(***************************************************************************)
PrettyStatusOk ==
  <<"{", "\n", " ", " ", "\"", "s", "t", "a", "t", "u", "s", "\"", ":", " ", "\"", "o", "k", "\"", "\n", "}">>
PrettyErrorList ==
  <<"{", "\n", " ", " ", "\"", "e", "r", "r", "o", "r", "\"", ":", " ", "[", "\n", " ", " ", " ", " ", "1", ",", "\n", " ", " ", " ", " ", "n", "u", "l", "l", "\n", " ", " ", "]", "\n", "}">>

\* The text the output region is expected to show for a decodable body.
ExpectedText(b) ==
  IF b = BodyStatusOk THEN PrettyStatusOk
  ELSE IF b = BodyErrorList THEN PrettyErrorList
  ELSE <<>>

Decodable == {BodyStatusOk, BodyErrorList}

Rendering(i) == JSONstringify(JSONparse(inv[i].response.body).v, 2)

RequestsOf(i) == {k \in 1..Len(requests) : requests[k].inv = i}
AlertsOf(i) == {k \in 1..Len(alerts) : alerts[k].inv = i}

Clicked == Len(inv') = Len(inv) + 1
Decoded(i) == inv[i].pc = "awaitJson" /\ inv'[i].pc = "done"

(***************************************************************************)
(* C1: a click made while no file is selected raises the warning alert and *)
(* issues no request; in every state each issued request belongs to an     *)
(* invocation whose click found a file selected.                           *)
(***************************************************************************)
C1_RequestsHaveFile ==
  /\ \A k \in 1..Len(requests) :
       requests[k].inv \in Ids /\ inv[requests[k].inv].file # NoFile
  /\ \A i \in Ids :
       inv[i].file = NoFile =>
         /\ RequestsOf(i) = {}
         /\ Cardinality(AlertsOf(i)) = 1
         /\ \A k \in AlertsOf(i) : alerts[k].msg = AlertText

C1_ClickWithoutFile ==
  (Clicked /\ fileInput = NoFile) =>
    /\ alerts' = Append(alerts, [inv |-> Len(inv'), msg |-> AlertText])
    /\ requests' = requests
    /\ inv'[Len(inv')].file = NoFile

Thm_C1 == [](C1_RequestsHaveFile) /\ [][C1_ClickWithoutFile]_vars

Wit_C1 ==
  \E i, j \in Ids :
    /\ inv[i].file = NoFile /\ AlertsOf(i) # {}
    /\ inv[j].file # NoFile /\ RequestsOf(j) # {}

(***************************************************************************)
(* C2: a click made while a file is selected issues exactly one request:   *)
(* POST to /upload, whose body has the single part `file` holding the file *)
(* selected at the click; no other step issues a request, and a request    *)
(* once issued never changes (a later change of the selection does not     *)
(* touch it).                                                              *)
(***************************************************************************)
Thm_C2 ==
  [][/\ \A k \in 1..Len(requests) :
          k <= Len(requests') /\ requests'[k] = requests[k]
     /\ (Clicked /\ fileInput # NoFile) =>
          requests' = Append(requests,
                        [inv |-> Len(inv'), url |-> "/upload",
                         method |-> "POST",
                         body |-> <<[name |-> "file", value |-> fileInput]>>])
     /\ ~Clicked => requests' = requests]_vars

Wit_C2 ==
  \E i \in Ids :
    /\ inv[i].pc = "awaitFetch"
    /\ fileInput \in Files /\ fileInput # inv[i].file
    /\ \E k \in RequestsOf(i) : requests[k].body[1].value = inv[i].file

(***************************************************************************)
(* C3: when the json() promise of an invocation fulfils, the output region *)
(* becomes the 2-space pretty-printed text of the decoded value: it is the *)
(* expected literal text for the body, and decoding it again gives the     *)
(* same value.  For {"status":"ok"} the text is {\n  "status": "ok"\n}.     *)
(***************************************************************************)
Thm_C3 ==
  [][\A i \in Ids :
       Decoded(i) =>
         /\ inv[i].response.body \in Decodable
         /\ output' = ExpectedText(inv[i].response.body)
         /\ JSONparse(output') = JSONparse(inv[i].response.body)]_vars

Wit_C3 ==
  \E i \in Ids :
    /\ inv[i].pc = "done"
    /\ inv[i].response.body = BodyStatusOk
    /\ output = PrettyStatusOk

(***************************************************************************)
(* C4: when the body of an invocation's response is not valid JSON, the    *)
(* invocation ends rejected and unhandled, and the output region keeps the *)
(* text it had; no invocation with such a body ever completes.             *)
(***************************************************************************)
Thm_C4 ==
  [][\A i \in Ids :
       (/\ inv[i].pc = "awaitJson"
        /\ inv'[i].pc # "awaitJson"
        /\ ~JSONparse(inv[i].response.body).ok) =>
         /\ inv'[i].pc = "rejected"
         /\ unhandled' = unhandled + 1
         /\ output' = output]_vars

Wit_C4 ==
  \E i \in Ids :
    /\ inv[i].pc = "rejected" /\ inv[i].error = "SyntaxError"
    /\ inv[i].response.body = BodyHtml
    /\ output = PrettyStatusOk

(***************************************************************************)
(* C5: when the fetch of an invocation fails (the invocation leaves its    *)
(* first await without a response), the invocation ends rejected and       *)
(* unhandled: no alert, no request, no decode, output unchanged.           *)
(***************************************************************************)
Thm_C5 ==
  [][\A i \in Ids :
       (/\ inv[i].pc = "awaitFetch"
        /\ inv'[i] # inv[i]
        /\ inv'[i].response = NoResponse) =>
         /\ inv'[i].pc = "rejected" /\ inv'[i].error = "TypeError"
         /\ unhandled' = unhandled + 1
         /\ alerts' = alerts
         /\ requests' = requests
         /\ output' = output]_vars

Wit_C5 ==
  \E i \in Ids :
    /\ inv[i].pc = "rejected" /\ inv[i].response = NoResponse
    /\ unhandled > 0
    /\ alerts = <<>>
    /\ output = PrettyErrorList

(***************************************************************************)
(* C6: the number of requests ever issued equals the number of clicks made *)
(* with a file selected, one request per such click, whatever the outcomes *)
(* of the requests were.                                                   *)
(***************************************************************************)
Thm_C6 ==
  /\ Len(requests) = Cardinality({i \in Ids : inv[i].file # NoFile})
  /\ \A i \in Ids : inv[i].file # NoFile => Cardinality(RequestsOf(i)) = 1

Wit_C6 ==
  \E i, j \in Ids :
    /\ inv[i].pc = "rejected" /\ inv[i].error = "TypeError"
    /\ inv[j].pc = "rejected" /\ inv[j].error = "SyntaxError"
    /\ Len(requests) = 2

(***************************************************************************)
(* C7: an invocation has at most one request, overlapping invocations are  *)
(* not ordered: whenever a decode completes the output region takes that   *)
(* invocation's rendering, also when a later click has already rendered,   *)
(* and the output region changes in no other way.                          *)
(***************************************************************************)
Thm_C7 ==
  /\ [](\A i \in Ids : Cardinality(RequestsOf(i)) <= 1)
  /\ [][/\ \A i \in Ids : Decoded(i) => output' = Rendering(i)
        /\ output' # output =>
             \E i \in Ids : Decoded(i) /\ output' = Rendering(i)]_vars

\* Both requests were in flight at once, and the earlier click's response was
\* decoded last.
Wit_C7 ==
  /\ Len(inv) >= 2
  /\ inv[1].pc = "done" /\ inv[2].pc = "done"
  /\ Rendering(1) # Rendering(2)
  /\ output = Rendering(1)

(***************************************************************************)
(* C8 as stated: no state written by one invocation is written by another. *)
(* Every invocation that reaches "done" has written output.textContent.    *)
(***************************************************************************)
Orig_C8 == Cardinality({i \in Ids : inv[i].pc = "done"}) <= 1

(***************************************************************************)
(* C8 amended: the locals of an invocation (file, response, position) are  *)
(* not shared: a step changes the locals of at most one invocation, and    *)
(* the file and the response of an invocation never change once set.  The  *)
(* output region's text is the state several invocations write.            *)
(***************************************************************************)
Thm_C8 ==
  [][/\ \A i, j \in Ids : i # j => (inv'[i] = inv[i] \/ inv'[j] = inv[j])
     /\ \A i \in Ids :
          /\ inv'[i].file = inv[i].file
          /\ inv[i].response # NoResponse =>
               inv'[i].response = inv[i].response]_vars

Wit_C8 ==
  /\ Len(inv) >= 2
  /\ inv[1].pc = "awaitJson" /\ inv[2].pc = "done"
  /\ inv[1].file # inv[2].file
  /\ inv[1].response # inv[2].response
  /\ output = Rendering(2)

(***************************************************************************)
(* C9: the status of the response is not looked at: a response whose body  *)
(* was read and decodes is rendered, with no alert and no rejection,       *)
(* whatever its status.                                                    *)
(***************************************************************************)
Thm_C9 ==
  [][\A i \in Ids :
       (/\ inv[i].pc = "awaitJson"
        /\ inv'[i].pc # "awaitJson"
        /\ inv'[i].error # "TypeError"
        /\ JSONparse(inv[i].response.body).ok) =>
         /\ inv'[i].pc = "done"
         /\ output' = Rendering(i)
         /\ alerts' = alerts
         /\ unhandled' = unhandled]_vars

Wit_C9 ==
  \E i \in Ids :
    /\ inv[i].pc = "done"
    /\ inv[i].response.status = 500
    /\ output = ExpectedText(inv[i].response.body)
    /\ alerts = <<>> /\ unhandled = 0

(***************************************************************************)
(* C10: an invocation starts on one of two paths (alert and return, or     *)
(* request and await), moves only forward along it, and the output region  *)
(* changes only in the final step of an invocation, after the request and  *)
(* the decode; a click itself never changes the output region.             *)
(***************************************************************************)
C10_Forward(i) ==
  \/ inv'[i] = inv[i]
  \/ inv[i].pc = "awaitFetch" /\ inv'[i].pc \in {"awaitJson", "rejected"}
  \/ inv[i].pc = "awaitJson" /\ inv'[i].pc \in {"done", "rejected"}

Thm_C10 ==
  [][/\ Len(inv') \in {Len(inv), Len(inv) + 1}
     /\ \A i \in Ids : C10_Forward(i)
     /\ Clicked =>
          /\ inv'[Len(inv')].pc \in {"returned", "awaitFetch"}
          /\ inv'[Len(inv')].pc = "returned" <=> fileInput = NoFile
          /\ output' = output
     /\ output' # output => \E i \in Ids : Decoded(i)]_vars

Wit_C10 ==
  \E i, j \in Ids :
    /\ inv[i].pc = "returned"
    /\ inv[j].pc = "done" /\ output = Rendering(j)

=============================================================================
